---- MODULE Spec2Model ----
(***************************************************************************)
(* FastScan (okba14/FastScan): the scanning core (native/src/scanner.c,    *)
(* native/src/fastscan.c, native/src/mmap_reader.c) and the N-API bridge   *)
(* (native/src/addon.c) as a state machine.                                *)
(*                                                                         *)
(* Offsets are C indices (0-based) into the mapped region; the region's    *)
(* bytes are the file's bytes, a sequence d with d[i+1] the byte at C      *)
(* index i.  Pointers into the region are modelled by their offset from    *)
(* region.data, so that data + k is k, also for a k below 0 or at or       *)
(* beyond the region's size.                                               *)
(***************************************************************************)
EXTENDS Integers, Sequences, FiniteSets, TLC

(***************************************************************************)
(* Bounds of the model.                                                    *)
(***************************************************************************)
\* Largest file size (bytes) drawn.
MaxLen == 5
\* Longest pattern string drawn.
MaxPat == 3
\* Largest result cap drawn.
MaxCap == 2
\* Largest worker count (nth = nproc - 1) drawn.
MaxWorkers == 3
\* Largest worker count drawn for a scan the bridge starts.
MaxBridgeWorkers == 2
\* The width of one vector register in bytes: 16 (__m128i) in the code,
\* scaled down so that the strided loops, their tails and the candidates
\* that cross a stride all occur on files of at most MaxLen bytes.
VecBytes == 2
\* The size from which fastscan_execute takes the parallel path: 256 * 1024
\* in the code (fastscan.c:143), scaled down to the files drawn here.
SmallFileLimit == 4
\* INITIAL_THREAD_CAPACITY, 4096 in the code (fastscan.c:10), scaled down so
\* that a worker's buffer grows more than once below MaxCap.
InitialThreadCapacity == 1

\* fs_size_t is an unsigned 64-bit integer (size_t); the model's words are
\* narrower, wide enough for every offset and far from every size drawn, so
\* that a wrapped value is told from a size as 2^64 - k is in the code.
FsSizeModulus == 65536

\* The byte values drawn for file contents and patterns; 0 is NUL.
Byte == {1, 2}

Min(a, b) == IF a < b THEN a ELSE b
Max(a, b) == IF a > b THEN a ELSE b
Minimum(S) == CHOOSE x \in S : \A y \in S : x <= y

\* All sequences over S of length lo..hi.
SeqsOf(S, lo, hi) == UNION {[1..n -> S] : n \in lo..hi}

(***************************************************************************)
(* fs_status_t                                                             *)
(***************************************************************************)
FS_SUCCESS == "FS_SUCCESS"
FS_ERROR_NULL_PTR == "FS_ERROR_NULL_PTR"
FS_ERROR_INVALID_ARG == "FS_ERROR_INVALID_ARG"
FS_ERROR_OUT_OF_BOUNDS == "FS_ERROR_OUT_OF_BOUNDS"
FS_ERROR_MMAP_FAILED == "FS_ERROR_MMAP_FAILED"
FS_ERROR_OPEN_FAILED == "FS_ERROR_OPEN_FAILED"

(***************************************************************************)
(* Memory.  A read of the region at C index i yields the file's byte when  *)
(* 0 <= i < size; outside, it yields whatever lies next to the mapping     *)
(* (pd), and the read is recorded: every scan carries the lowest and the   *)
(* highest index it has loaded (rlo, rhi; rhi = -1 before any load).       *)
(* A pattern is the C string the caller passed: its bytes, then NUL.       *)
(***************************************************************************)
Rd(d, i, pd) == IF i >= 0 /\ i < Len(d) THEN d[i + 1] ELSE pd

PatAt(buf, k, pd) == IF k < Len(buf) THEN buf[k + 1] ELSE pd

strlen(buf) == Minimum({k \in 0..(Len(buf) - 1) : buf[k + 1] = 0})

CString(s) == Append(s, 0)

Touch(s, a, b) == [s EXCEPT !.rlo = Min(@, a), !.rhi = Max(@, b)]

\* The naive linear scan of the specification: every i in [0, size - P]
\* with d[i .. i+P) = pattern, ascending.
IsOccurrence(d, s, i) ==
    /\ i >= 0
    /\ i + Len(s) <= Len(d)
    /\ \A k \in 1..Len(s) : d[i + k] = s[k]

NaiveSet(d, s) == {i \in 0..Len(d) : IsOccurrence(d, s, i)}

RECURSIVE SortedSeq(_)
SortedSeq(S) ==
    IF S = {} THEN <<>>
    ELSE LET m == Minimum(S) IN <<m>> \o SortedSeq(S \ {m})

Naive(d, s) == SortedSeq(NaiveSet(d, s))

FirstN(q, n) == SubSeq(q, 1, Min(Len(q), n))

StrictlyAscending(q) == \A i \in 1..(Len(q) - 1) : q[i] < q[i + 1]

(***************************************************************************)
(* scanner.c: verify_sse2 and fs_scan_raw.                                 *)
(* a = [d, buf, P, cap, pd, vw]: the data, the pattern buffer, pattern_len,*)
(* max_matches, the bytes around the data, the vector width.               *)
(* s = [ph, start, mask, out, rlo, rhi]: the loop the scan is in, start,   *)
(* the candidate bits left of the current stride, the offsets written.     *)
(***************************************************************************)
\* (mask & target_mask) == target_mask, target_mask covering min(len, 16) lanes.
verify_sse2(a, at, len) ==
    \A k \in 0..(Min(len, a.vw) - 1) : Rd(a.d, at + k, a.pd) = PatAt(a.buf, k, a.pd)

memcmp_eq(a, at, len) ==
    \A k \in 0..(len - 1) : Rd(a.d, at + k, a.pd) = PatAt(a.buf, k, a.pd)

\* The last index a verification at `at` loads: a whole vector for
\* pattern_len <= 16, pattern_len bytes for memcmp.
VerifyLast(a, at) == IF a.P <= a.vw THEN at + a.vw - 1 ELSE at + a.P - 1

is_match(a, at) ==
    IF a.P <= a.vw THEN verify_sse2(a, at, a.P) ELSE memcmp_eq(a, at, a.P)

\* candidate < limit, limit = end - pattern_len + 1
CandidateBelowLimit(a, cand) == cand < Len(a.d) - a.P + 1

\* if (*match_count < max_matches) out_matches[(*match_count)++] = ...
RawHasRoom(a, s) == Len(s.out) < a.cap

fs_scan_begin(a) ==
    LET s0 == [ph |-> "sse", start |-> 0, mask |-> {}, out |-> <<>>,
               rlo |-> 0, rhi |-> -1]
    IN IF a.cap = 0 \/ Len(a.d) < a.P THEN [s0 EXCEPT !.ph = "done"] ELSE s0

\* RawHit writing the offset of the byte after the candidate.
RawHit_NextOffset(a, s, at, next) ==
    LET r == Touch(next, at, VerifyLast(a, at))
    IN IF is_match(a, at)
       THEN IF RawHasRoom(a, s)
            THEN [r EXCEPT !.out = Append(@, at + 1)]
            ELSE [r EXCEPT !.ph = "done"]
       ELSE r

\* A verified hit at `at`: record it, or return when the cap was reached.
RawHit(a, s, at, next) ==
    LET r == Touch(next, at, VerifyLast(a, at))
    IN IF is_match(a, at)
       THEN IF RawHasRoom(a, s)
            THEN [r EXCEPT !.out = Append(@, at)]
            ELSE [r EXCEPT !.ph = "done"]
       ELSE r

fs_scan_step(a, s) ==
    CASE s.ph = "sse" ->
           IF s.start < Len(a.d) - a.vw
           THEN LET m1 == {k \in 0..(a.vw - 1) :
                             Rd(a.d, s.start + k, a.pd) = PatAt(a.buf, 0, a.pd)}
                    m2 == IF a.P > 1
                          THEN {k \in 0..(a.vw - 1) :
                                  Rd(a.d, s.start + 1 + k, a.pd) = PatAt(a.buf, 1, a.pd)}
                          ELSE 0..(a.vw - 1)
                    hi == IF a.P > 1 THEN s.start + a.vw ELSE s.start + a.vw - 1
                IN Touch([s EXCEPT !.ph = "cand", !.mask = m1 \cap m2], s.start, hi)
           ELSE [s EXCEPT !.ph = "tail"]
      [] s.ph = "cand" ->
           IF s.mask = {}
           THEN [s EXCEPT !.ph = "sse", !.start = @ + a.vw]
           ELSE LET off == Minimum(s.mask)
                    next == [s EXCEPT !.mask = @ \ {off}]
                IN IF CandidateBelowLimit(a, s.start + off)
                   THEN RawHit(a, s, s.start + off, next)
                   ELSE next
      [] s.ph = "tail" ->
           IF s.start < Len(a.d) - a.P + 1
           THEN LET next == [s EXCEPT !.start = @ + 1]
                    r0 == Touch(next, s.start, s.start)
                IN IF Rd(a.d, s.start, a.pd) = PatAt(a.buf, 0, a.pd)
                   THEN IF a.P = 1
                        THEN RawHit(a, s, s.start, r0)
                        ELSE LET r1 == Touch(r0, s.start + 1, s.start + 1)
                             IN IF Rd(a.d, s.start + 1, a.pd) = PatAt(a.buf, 1, a.pd)
                                THEN RawHit(a, s, s.start, r1)
                                ELSE r1
                   ELSE r0
           ELSE [s EXCEPT !.ph = "done"]
      [] OTHER -> s

RECURSIVE fs_scan_run(_, _)
fs_scan_run(a, s) == IF s.ph = "done" THEN s ELSE fs_scan_run(a, fs_scan_step(a, s))

fs_scan_raw(a) == fs_scan_run(a, fs_scan_begin(a))

(***************************************************************************)
(* The second fs_scan_raw of the repository: a path specialised to one     *)
(* pattern length and a memchr loop for every other length.                *)
(* a = [d, buf, P, cap, pd, vw, sl, align]: as above, with the pattern     *)
(* length the first path is specialised to and data's address modulo the   *)
(* vector width.  s = [start, out, ret]: start, the offsets written,       *)
(* whether the function has returned.                                      *)
(***************************************************************************)
\* The vector width and the specialised pattern length of the source.
SseBytes == 16
FiveBytePath == 5
\* The specialised pattern length scaled to the patterns drawn.
SpecialisedLen == 3

\* limit = end - pattern_len + 1
VariantLimit(a) == Len(a.d) - a.P + 1

\* start[0] == b0 && ... && start[4] == b4, the bytes read where they lie.
BytesEqual(a, at) ==
    \A k \in 0..(a.P - 1) : Rd(a.d, at + k, a.pd) = PatAt(a.buf, k, a.pd)

\* out_matches[(*match_count)++] = at; if (*match_count >= max_matches) return
VariantHit(a, s, at) ==
    [s EXCEPT !.out = Append(@, at), !.ret = Len(s.out) + 1 >= a.cap]

RECURSIVE check_remainder(_, _)
check_remainder(a, s) ==
    IF s.ret \/ ~(s.start < VariantLimit(a)) THEN s
    ELSE LET next == [s EXCEPT !.start = @ + 1]
         IN IF Rd(a.d, s.start, a.pd) = PatAt(a.buf, 0, a.pd) /\ memcmp_eq(a, s.start, a.P)
            THEN LET r == VariantHit(a, s, s.start)
                 IN IF r.ret THEN r ELSE check_remainder(a, [r EXCEPT !.start = @ + 1])
            ELSE check_remainder(a, next)

\* while (start < limit && (uintptr_t)start % 16 != 0)
RECURSIVE AlignLoop(_, _)
AlignLoop(a, s) ==
    IF s.ret \/ ~(s.start < VariantLimit(a) /\ (a.align + s.start) % a.vw # 0) THEN s
    ELSE IF BytesEqual(a, s.start)
         THEN LET r == VariantHit(a, s, s.start)
              IN IF r.ret THEN r ELSE AlignLoop(a, [r EXCEPT !.start = @ + 1])
         ELSE AlignLoop(a, [s EXCEPT !.start = @ + 1])

\* while (mask != 0): the candidates of one stride, lowest first; the bytes
\* after the first are read at start + offset + 1 .. + 4 with no test of
\* the candidate against limit.
RECURSIVE MaskLoop(_, _, _)
MaskLoop(a, s, mask) ==
    IF s.ret \/ mask = {} THEN s
    ELSE LET offset == Minimum(mask)
             at == s.start + offset
         IN IF \A k \in 1..(a.P - 1) : Rd(a.d, at + k, a.pd) = PatAt(a.buf, k, a.pd)
            THEN MaskLoop(a, VariantHit(a, s, at), mask \ {offset})
            ELSE MaskLoop(a, s, mask \ {offset})

\* while (start < simd_limit), simd_limit = end - 16
RECURSIVE SimdLoop(_, _)
SimdLoop(a, s) ==
    IF s.ret \/ ~(s.start < Len(a.d) - a.vw) THEN s
    ELSE LET mask == {k \in 0..(a.vw - 1) :
                        Rd(a.d, s.start + k, a.pd) = PatAt(a.buf, 0, a.pd)}
             r == MaskLoop(a, s, mask)
         IN IF r.ret THEN r ELSE SimdLoop(a, [r EXCEPT !.start = @ + a.vw])

\* memchr(start, b0, end - start): the first index holding b0, -1 for NULL.
memchr(a, start) ==
    LET S == {i \in start..(Len(a.d) - 1) : a.d[i + 1] = PatAt(a.buf, 0, a.pd)}
    IN IF S = {} THEN -1 ELSE Minimum(S)

\* found == NULL || found > limit
MemchrStops(a, found) == found = -1 \/ found > VariantLimit(a)

RECURSIVE MemchrLoop(_, _)
MemchrLoop(a, s) ==
    IF s.ret \/ ~(s.start < VariantLimit(a)) THEN s
    ELSE LET found == memchr(a, s.start)
         IN IF MemchrStops(a, found) THEN s
            ELSE IF memcmp_eq(a, found, a.P)
                 THEN LET r == VariantHit(a, s, found)
                      IN IF r.ret THEN r ELSE MemchrLoop(a, [r EXCEPT !.start = found + 1])
                 ELSE MemchrLoop(a, [s EXCEPT !.start = found + 1])

fs_scan_raw_variant(a) ==
    LET s0 == [start |-> 0, out |-> <<>>, ret |-> FALSE]
    IN IF a.cap = 0 \/ Len(a.d) < a.P THEN s0
       ELSE IF a.P = a.sl
            THEN check_remainder(a, SimdLoop(a, AlignLoop(a, s0)))
            ELSE MemchrLoop(a, s0)

(***************************************************************************)
(* fastscan.c: thread_data_t, grow_buffer, verify_simd, worker_thread.     *)
(* a = [d, buf, P, pd, vw, failAt]: the whole region (global_start), the   *)
(* pattern, the bytes around the mapping, the vector width, and which of   *)
(* this worker's realloc calls returns NULL (0: none).                     *)
(* td: the thread_data_t fields, then the worker's position: the loop it is*)
(* in (ph), p, the candidate bits left (mask), the realloc calls made      *)
(* (allocs), whether one returned NULL (nomem), whether the local buffer   *)
(* is allocated (bufst; buf is then its id in the heap) and the indices    *)
(* loaded (rlo, rhi).                                                      *)
(***************************************************************************)
\* grow_buffer without line 30's clipping of new_cap to max_collect.
grow_buffer_NoClip(a, td) ==
    IF Len(td.matches) >= td.max_collect
    THEN [ok |-> FALSE, td |-> td]
    ELSE LET new_cap == IF td.capacity = 0 THEN a.itc ELSE td.capacity * 2
         IN IF td.allocs + 1 = a.failAt
            THEN [ok |-> FALSE,
                  td |-> [td EXCEPT !.allocs = @ + 1, !.nomem = TRUE]]
            ELSE [ok |-> TRUE,
                  td |-> [td EXCEPT !.allocs = @ + 1, !.capacity = new_cap,
                                    !.bufst = "live"]]
grow_buffer(a, td) ==
    IF Len(td.matches) >= td.max_collect
    THEN [ok |-> FALSE, td |-> td]
    ELSE LET new_cap0 == IF td.capacity = 0 THEN a.itc ELSE td.capacity * 2
             new_cap == IF new_cap0 > td.max_collect THEN td.max_collect ELSE new_cap0
         IN IF td.allocs + 1 = a.failAt
            THEN [ok |-> FALSE,
                  td |-> [td EXCEPT !.allocs = @ + 1, !.nomem = TRUE]]
            ELSE [ok |-> TRUE,
                  td |-> [td EXCEPT !.allocs = @ + 1, !.capacity = new_cap,
                                    !.bufst = "live"]]

verify_simd(a, at, len) ==
    IF len <= a.vw
    THEN \A k \in 0..(len - 1) : Rd(a.d, at + k, a.pd) = PatAt(a.buf, k, a.pd)
    ELSE memcmp_eq(a, at, len)

VerifySimdLast(a, at) == IF a.P <= a.vw THEN at + a.vw - 1 ELSE at + a.P - 1

\* (fs_size_t)(p - global_start): unsigned, so that a p below global_start
\* yields a value near the top of the range.
AbsOff(p) == p % FsSizeModulus

\* if (abs_off >= td->true_chunk_start): a hit of the overlap prefix is kept
\* only when this worker owns its offset.
OwnsOffset_Always(abs_off, true_chunk_start) == TRUE
OwnsOffset(abs_off, true_chunk_start) == abs_off >= true_chunk_start

\* if (td->count >= td->capacity) { if (grow_buffer(td)) goto cleanup; }
\* td->matches[td->count++] = at;
\* The goto leaves the loop before p moves on: p stays at from.
WorkerRecord_DropOnFail(a, td, at, from) ==
    IF Len(td.matches) >= td.capacity
    THEN LET g == grow_buffer(a, td)
         IN IF g.ok
            THEN [g.td EXCEPT !.matches = Append(@, at)]
            ELSE [g.td EXCEPT !.ph = "done", !.p = from, !.matches = <<>>]
    ELSE [td EXCEPT !.matches = Append(@, at)]
WorkerRecord(a, td, at, from) ==
    IF Len(td.matches) >= td.capacity
    THEN LET g == grow_buffer(a, td)
         IN IF g.ok
            THEN [g.td EXCEPT !.matches = Append(@, at)]
            ELSE [g.td EXCEPT !.ph = "done", !.p = from]
    ELSE [td EXCEPT !.matches = Append(@, at)]

WorkerLimit(a, td) == td.start + td.size - a.P + 1

\* if (*p == pattern[0] && verify_simd(p, ...)) record p; p++
WorkerScalar(a, td, owned) ==
    LET next == Touch([td EXCEPT !.p = @ + 1], td.p, td.p)
    IN IF Rd(a.d, td.p, a.pd) = PatAt(a.buf, 0, a.pd)
       THEN LET r == Touch(next, td.p, VerifySimdLast(a, td.p))
            IN IF verify_simd(a, td.p, a.P) /\ owned
               THEN WorkerRecord(a, r, AbsOff(td.p), td.p)
               ELSE r
       ELSE next

worker_begin(td) == [td EXCEPT !.ph = "overlap", !.p = td.start]

worker_step(a, td) ==
    CASE td.ph = "overlap" ->
           IF td.p < WorkerLimit(a, td) /\ td.p < td.true_chunk_start
           THEN WorkerScalar(a, td, OwnsOffset(AbsOff(td.p), td.true_chunk_start))
           ELSE [td EXCEPT !.ph = "align"]
      [] td.ph = "align" ->
           IF td.p % a.vw # 0 /\ td.p < WorkerLimit(a, td)
           THEN WorkerScalar(a, td, TRUE)
           ELSE [td EXCEPT !.ph = "simd"]
      [] td.ph = "simd" ->
           IF td.p < WorkerLimit(a, td) - a.vw
           THEN LET m == {k \in 0..(a.vw - 1) :
                            Rd(a.d, td.p + k, a.pd) = PatAt(a.buf, 0, a.pd)}
                IN Touch([td EXCEPT !.ph = "simdcand", !.mask = m],
                         td.p, td.p + a.vw - 1)
           ELSE [td EXCEPT !.ph = "tail"]
      [] td.ph = "simdcand" ->
           IF td.mask = {}
           THEN IF Len(td.matches) >= td.max_collect
                THEN [td EXCEPT !.ph = "done", !.p = @ + a.vw]
                ELSE [td EXCEPT !.ph = "simd", !.p = @ + a.vw]
           ELSE LET off == Minimum(td.mask)
                    r == Touch([td EXCEPT !.mask = @ \ {off}],
                               td.p + off, VerifySimdLast(a, td.p + off))
                IN IF verify_simd(a, td.p + off, a.P)
                   THEN WorkerRecord(a, r, AbsOff(td.p + off), td.p)
                   ELSE r
      [] td.ph = "tail" ->
           IF td.p < WorkerLimit(a, td)
           THEN WorkerScalar(a, td, TRUE)
           ELSE [td EXCEPT !.ph = "done"]
      [] OTHER -> td

RECURSIVE worker_run(_, _)
worker_run(a, td) == IF td.ph = "done" THEN td ELSE worker_run(a, worker_step(a, td))

worker_thread(a, td) == worker_run(a, worker_begin(td))

(***************************************************************************)
(* fastscan.c: fastscan_execute, the partition (lines 156-179).            *)
(* fs_size_t is unsigned: start_off - pattern_len + 1 wraps below 0, and   *)
(* data + read_start then lies read_start - 2^64 bytes from data, which is *)
(* the (negative) integer the model keeps.                                 *)
(***************************************************************************)
StartOff(i, chunk_sz) == i * chunk_sz

EndOff(i, nth, size, chunk_sz) == IF i = nth - 1 THEN size ELSE (i + 1) * chunk_sz

ReadStart(i, chunk_sz, P) == IF i = 0 THEN 0 ELSE StartOff(i, chunk_sz) - P + 1

ReadEnd(i, nth, size, chunk_sz, P) ==
    LET read_end == IF i = nth - 1 THEN size ELSE EndOff(i, nth, size, chunk_sz) + P - 1
    IN IF read_end > size THEN size ELSE read_end

\* tds[i] as the spawn loop fills it (i is the 0-based worker index).
NewThreadData(i, nth, size, P, max_matches) ==
    LET chunk_sz == size \div nth
        rs == ReadStart(i, chunk_sz, P)
        re == ReadEnd(i, nth, size, chunk_sz, P)
    IN [start |-> rs, size |-> re - rs, true_chunk_start |-> StartOff(i, chunk_sz),
        max_collect |-> max_matches, matches |-> <<>>, capacity |-> 0,
        bufst |-> "null", buf |-> 0, ph |-> "new", p |-> rs, mask |-> {}, allocs |-> 0,
        nomem |-> FALSE, rlo |-> 0, rhi |-> -1]

(***************************************************************************)
(* The heap and the process's descriptors and mappings.                    *)
(* heap[id] is one allocation: what it is, and who has called free on it   *)
(* (frees, in order).  A pointer is an id; 0 is NULL.                      *)
(* os.fds: the descriptors open in the process (0, 1, 2 at start);         *)
(* os.owned: those fs_mmap_open returned and nobody closed yet;            *)
(* os.maps: live mappings; os.foreign: descriptors closed that             *)
(* fs_mmap_open had not returned; os.ebadf: close() calls on a descriptor  *)
(* that was not open; os.met: what the last fs_mmap_open met.              *)
(***************************************************************************)
Malloc(h, kind) == Append(h, [kind |-> kind, frees |-> <<>>])

Free(h, id, who) ==
    IF id = 0 THEN h ELSE [h EXCEPT ![id].frees = Append(@, who)]

Live(h) == {id \in 1..Len(h) : h[id].frees = <<>>}

InitOs ==
    [fds |-> {0, 1, 2}, owned |-> {}, maps |-> 0, foreign |-> {}, ebadf |-> FALSE,
     met |-> "none"]

\* open() returns the lowest descriptor not in use.
LowestFreeFd(o) == Minimum((0..Cardinality(o.fds)) \ o.fds)

Close(o, fd) ==
    IF fd \in o.owned
    THEN [o EXCEPT !.fds = @ \ {fd}, !.owned = @ \ {fd}]
    ELSE IF fd \in o.fds
         THEN [o EXCEPT !.fds = @ \ {fd}, !.foreign = @ \cup {fd}]
         ELSE [o EXCEPT !.ebadf = TRUE]

(***************************************************************************)
(* mmap_reader.c: fs_mmap_open, fs_mmap_close.                             *)
(* how: what the path is and what the system calls do with it:            *)
(*   "ok"         a regular file of `size` bytes; every call succeeds      *)
(*   "open"       open() fails (no such path, no permission)               *)
(*   "fstat"      fstat() fails                                            *)
(*   "mmap"       a regular file; mmap() fails                             *)
(*   "directory"  a directory: open(O_RDONLY) and fstat() succeed, st_size *)
(*                is positive, mmap() fails with ENODEV                    *)
(*   "device"     a character device or a /proc file: open() and fstat()   *)
(*                succeed, st_size is 0                                    *)
(***************************************************************************)
Hows == {"ok", "open", "fstat", "mmap", "directory", "device"}

\* st.st_size is 0
StSizeIsZero(size, how) ==
    CASE how = "device" -> TRUE
      [] how = "directory" -> FALSE
      [] OTHER -> size = 0

\* map == MAP_FAILED
MapFailed(how) == how \in {"mmap", "directory"}

fs_mmap_open(o, region, size, how) ==
    IF how = "open"
    THEN [st |-> FS_ERROR_OPEN_FAILED, region |-> region,
          os |-> [o EXCEPT !.met = how]]
    ELSE LET fd == LowestFreeFd(o)
             opened == [o EXCEPT !.fds = @ \cup {fd}, !.owned = @ \cup {fd},
                                 !.met = how]
         IN IF how = "fstat"
            THEN [st |-> FS_ERROR_OPEN_FAILED, region |-> region, os |-> Close(opened, fd)]
            ELSE IF StSizeIsZero(size, how)
            THEN [st |-> FS_SUCCESS, os |-> opened,
                  region |-> [data |-> 0, size |-> 0, fd |-> fd]]
            ELSE IF MapFailed(how)
            THEN [st |-> FS_ERROR_MMAP_FAILED, region |-> region, os |-> Close(opened, fd)]
            ELSE [st |-> FS_SUCCESS, os |-> [opened EXCEPT !.maps = @ + 1],
                  region |-> [data |-> 1, size |-> size, fd |-> fd]]

fs_mmap_close_KeepFd(o, region) ==
    LET unmap == region.data # 0 /\ region.size > 0
        o1 == IF unmap THEN [o EXCEPT !.maps = @ - 1] ELSE o
        o2 == IF region.fd # -1 THEN Close(o1, region.fd) ELSE o1
    IN [os |-> o2,
        region |-> [data |-> IF unmap THEN 0 ELSE region.data, size |-> 0,
                    fd |-> region.fd]]
fs_mmap_close(o, region) ==
    LET unmap == region.data # 0 /\ region.size > 0
        o1 == IF unmap THEN [o EXCEPT !.maps = @ - 1] ELSE o
        o2 == IF region.fd # -1 THEN Close(o1, region.fd) ELSE o1
    IN [os |-> o2,
        region |-> [data |-> IF unmap THEN 0 ELSE region.data, size |-> 0, fd |-> -1]]

(***************************************************************************)
(* fastscan.c: fastscan_ctx_t, fastscan_init, fastscan_load_file,          *)
(* fastscan_destroy.  ctx.matches is the pointer; mdata and mcap are what  *)
(* the buffer it points to holds and how many entries were allocated.      *)
(***************************************************************************)
ZeroCtx ==
    [pattern |-> <<>>, pattern_len |-> 0,
     region |-> [data |-> 0, size |-> 0, fd |-> 0],
     matches |-> 0, mdata |-> <<>>, mcap |-> 0,
     match_count |-> 0, max_matches |-> 0, is_initialized |-> 0]

\* The pattern is a C string or NULL (<<>>).
fastscan_init(c, pattern, max_results) ==
    IF pattern = <<>> THEN [st |-> FS_ERROR_NULL_PTR, ctx |-> c]
    ELSE [st |-> FS_SUCCESS,
          ctx |-> [ZeroCtx EXCEPT !.pattern = pattern, !.pattern_len = strlen(pattern),
                                  !.max_matches = max_results, !.is_initialized = 1]]

fastscan_load_file(c, o, size, how) ==
    LET r == fs_mmap_open(o, c.region, size, how)
    IN [st |-> r.st, ctx |-> [c EXCEPT !.region = r.region], os |-> r.os]

fastscan_destroy(c, h, o) ==
    LET r == fs_mmap_close(o, c.region)
    IN [ctx |-> [c EXCEPT !.region = r.region, !.matches = 0, !.mdata = <<>>,
                          !.mcap = 0, !.match_count = 0, !.is_initialized = 0],
        heap |-> Free(h, c.matches, "fastscan_destroy"),
        os |-> r.os]

(***************************************************************************)
(* fastscan.c: fastscan_execute.                                           *)
(* d: the bytes at region.data (the file's, while it is mapped).           *)
(***************************************************************************)
ScanArgs(c, d, pd) ==
    [d |-> d, buf |-> c.pattern, P |-> c.pattern_len, cap |-> c.max_matches,
     pd |-> pd, vw |-> VecBytes]

WorkerArgs(c, d, pd, failAt) ==
    [d |-> d, buf |-> c.pattern, P |-> c.pattern_len, pd |-> pd, vw |-> VecBytes,
     itc |-> InitialThreadCapacity, failAt |-> failAt]

\* total_size < 256 * 1024
TakesDirectPath(c) == c.region.size < SmallFileLimit

\* The direct path: malloc(max_matches entries), then fs_scan_raw.
ExecDirect(c, h, d, pd, allocOk) ==
    IF ~allocOk
    THEN [st |-> FS_ERROR_OUT_OF_BOUNDS, heap |-> h, rlo |-> 0, rhi |-> -1,
          ctx |-> [c EXCEPT !.matches = 0, !.mdata = <<>>, !.mcap = 0]]
    ELSE LET s == fs_scan_raw(ScanArgs(c, d, pd))
             h1 == Malloc(h, "final")
         IN [st |-> FS_SUCCESS, heap |-> h1, rlo |-> s.rlo, rhi |-> s.rhi,
             ctx |-> [c EXCEPT !.matches = Len(h1), !.mdata = s.out,
                               !.mcap = c.max_matches, !.match_count = Len(s.out)]]

\* pthread_create(&threads[i], NULL, worker_thread, &tds[i]): its result is
\* not looked at; when it fails no thread runs on tds[i] and threads[i] is
\* left as it was, uninitialised.
pthread_create(td, ok) == IF ok THEN td ELSE [td EXCEPT !.ph = "notcreated"]

\* The spawn loop: tds[0 .. nth-1], kept as a sequence tds[1 .. nth];
\* created[w] tells whether pthread_create succeeds for worker w.
SpawnAll(c, nth, created) ==
    [w \in 1..nth |->
        pthread_create(NewThreadData(w - 1, nth, c.region.size, c.pattern_len,
                                     c.max_matches),
                       created[w])]

\* pthread_join that waits for no worker.
Terminated_NoWait(td) == TRUE
\* pthread_join(threads[i], NULL) returns: the worker has returned, or was
\* never created.
Terminated(td) == td.ph \in {"done", "notcreated"}

\* Some pthread_create of this scan failed.
SpawnFailed(t) == \E w \in 1..Len(t) : t[w].ph = "notcreated"

RECURSIVE SumCounts(_, _)
SumCounts(t, n) == IF n = 0 THEN 0 ELSE Len(t[n].matches) + SumCounts(t, n - 1)

\* The local buffer a worker has allocated enters the heap.
Adopt(h, td) ==
    IF td.bufst = "live" /\ td.buf = 0
    THEN [heap |-> Malloc(h, "local"), td |-> [td EXCEPT !.buf = Len(h) + 1]]
    ELSE [heap |-> h, td |-> td]

\* free(tds[i].matches)
FreeLocal(td) == [td EXCEPT !.bufst = IF @ = "live" THEN "freed" ELSE @]

FreeLocals_None(h, t, n) == h
RECURSIVE FreeLocals(_, _, _)
FreeLocals(h, t, n) ==
    IF n = 0 THEN h ELSE FreeLocals(Free(h, t[n].buf, "fastscan_execute"), t, n - 1)

\* After the join loop: total, final_cnt and the final buffer's malloc.
ExecJoin(c, h, t, allocOk) ==
    LET total == SumCounts(t, Len(t))
        final_cnt == IF total > c.max_matches THEN c.max_matches ELSE total
    IN IF ~allocOk
       THEN [st |-> FS_ERROR_OUT_OF_BOUNDS, heap |-> FreeLocals(h, t, Len(t)),
             ctx |-> [c EXCEPT !.matches = 0, !.mdata = <<>>, !.mcap = 0],
             tds |-> [w \in 1..Len(t) |-> FreeLocal(t[w])],
             ex |-> [nth |-> Len(t), i |-> Len(t), j |-> 0, total |-> total,
                     final_cnt |-> final_cnt, nomem |-> FALSE,
                     spawn_failed |-> SpawnFailed(t),
                     joined_uncreated |-> SpawnFailed(t)]]
       ELSE LET h1 == Malloc(h, "final")
            IN [st |-> FS_SUCCESS, heap |-> h1,
                ctx |-> [c EXCEPT !.matches = Len(h1), !.mdata = <<>>,
                                  !.mcap = final_cnt, !.match_count = 0],
                tds |-> t,
                ex |-> [nth |-> Len(t), i |-> 0, j |-> 0, total |-> total,
                        final_cnt |-> final_cnt, nomem |-> FALSE,
                        spawn_failed |-> SpawnFailed(t),
                        joined_uncreated |-> SpawnFailed(t)]]

\* if (ctx->match_count >= final_cnt) break;
MergeFull_Never(c, e) == FALSE
MergeFull(c, e) == c.match_count >= e.final_cnt

\* One iteration of the merge's inner loop, or the end of worker i's turn:
\* free(tds[i].matches) and i++.
MergeStep(c, h, t, e) ==
    IF e.j < Len(t[e.i + 1].matches) /\ ~MergeFull(c, e)
    THEN [ctx |-> [c EXCEPT !.mdata = Append(@, t[e.i + 1].matches[e.j + 1]),
                            !.match_count = @ + 1],
          heap |-> h, tds |-> t, ex |-> [e EXCEPT !.j = @ + 1]]
    ELSE [ctx |-> c, heap |-> Free(h, t[e.i + 1].buf, "fastscan_execute"),
          tds |-> [t EXCEPT ![e.i + 1] = FreeLocal(@)],
          ex |-> [e EXCEPT !.i = @ + 1, !.j = 0]]

\* The merge from the state r = [ctx, heap, tds, ex] to its end.
RECURSIVE MergeRun(_)
MergeRun(r) ==
    IF r.ex.i >= Len(r.tds) THEN r
    ELSE MergeRun(MergeStep(r.ctx, r.heap, r.tds, r.ex))

(***************************************************************************)
(* The state.                                                              *)
(*   file    the bytes of the file at the path scanned                     *)
(*   ctx     the fastscan_ctx_t                                            *)
(*   heap, os  allocations; descriptors and mappings                       *)
(*   status  the fs_status_t the last core call returned                   *)
(*   pc      where the caller of the core is                               *)
(*   tds     fastscan_execute's tds[] while the parallel path runs         *)
(*   ex      its locals: nth (0: the direct path was taken), i, j, total,  *)
(*           final_cnt, whether a worker's realloc returned NULL, whether  *)
(*           a pthread_create failed, and whether the join loop has called *)
(*           pthread_join for a thread that was never created              *)
(*   reads   the lowest and highest region index the scan has loaded       *)
(*   js      the bridge: the entry point called, the AsyncScanData, the    *)
(*           external ArrayBuffers and what JavaScript received            *)
(* The byte found outside the mapping is drawn at each scan (pd).          *)
(***************************************************************************)
VARIABLES file, ctx, heap, os, status, pc, tds, ex, reads, js, scan

vars == <<file, ctx, heap, os, status, pc, tds, ex, reads, js, scan>>

Files == SeqsOf(Byte, 0, MaxLen)

\* The patterns a caller passes: NULL (<<>>) or a C string.  The code treats
\* all non-NUL byte values alike and the files range over all of them, so
\* the patterns drawn start with the first.
PatternStrings == {s \in SeqsOf(Byte, 0, MaxPat) : s = <<>> \/ s[1] = 1}

\* One pattern longer than every file drawn, so that a region of the
\* parallel path's sizes is also scanned for a pattern that cannot fit.
LongPattern == [k \in 1..(MaxLen + 1) |-> 1]

Patterns == {<<>>} \cup {CString(s) : s \in PatternStrings \cup {LongPattern}}

NoEx ==
    [nth |-> 0, i |-> 0, j |-> 0, total |-> 0, final_cnt |-> 0, nomem |-> FALSE,
     spawn_failed |-> FALSE, joined_uncreated |-> FALSE]
NoReads == [lo |-> 0, hi |-> -1]

\* call: the entry point called; arg_path, arg_pattern: the strings
\* JavaScript passed; file_path, pattern: the fixed-size buffers they were
\* copied into (ScanFileSync's locals, the AsyncScanData's fields);
\* async_data: the AsyncScanData's allocation (0: none) and its
\* max_matches, matches, match_count and scan_status fields; external: the buffers wrapped in an external
\* ArrayBuffer, finalized: those whose finalizer has run; outcome, msg, length:
\* what JavaScript has received (a throw or rejection with msg, a plain empty
\* array, a BigUint64Array of `length` elements, a pending promise);
\* uninit: the values read from a field of the AsyncScanData that nothing
\* had assigned since its malloc.
NoJs ==
    [call |-> "none", arg_path |-> <<>>, arg_pattern |-> <<>>, file_path |-> <<>>,
     async_data |-> 0, pattern |-> <<>>, max_matches |-> 0,
     matches |-> 0, match_count |-> 0, scan_status |-> FS_SUCCESS,
     external |-> {}, finalized |-> {}, outcome |-> "none", msg |-> "", length |-> 0,
     uninit |-> {}]

\* The arguments of a call of fs_scan_raw on its own and what each of the
\* two implementations wrote: the pattern buffer, pattern_len, max_matches,
\* the bytes after data + data_len, data's address modulo the vector width,
\* the vector width and the specialised length; gs: where scanner.c's
\* implementation is in its loops ("new": not called yet); ran: the
\* implementations that have returned.
NoScan ==
    [buf |-> <<>>, P |-> 0, cap |-> 0, pd |-> 0, align |-> 0, vw |-> VecBytes,
     sl |-> SpecialisedLen, generic |-> <<>>, variant |-> <<>>, ran |-> {},
     gs |-> [ph |-> "new", start |-> 0, mask |-> {}, out |-> <<>>,
             rlo |-> 0, rhi |-> -1]]

\* The bytes at ctx.region.data.
RegionBytes == IF ctx.region.data # 0 THEN file ELSE <<>>

Init ==
    /\ file \in Files
    /\ ctx = ZeroCtx
    /\ heap = <<>>
    /\ os = InitOs
    /\ status = FS_SUCCESS
    /\ pc = "new"
    /\ tds = <<>>
    /\ ex = NoEx
    /\ reads = NoReads
    /\ js = NoJs
    /\ scan = NoScan

FastscanInit ==
    /\ pc = "new"
    /\ \E pattern \in Patterns, max_results \in 0..MaxCap :
          LET r == fastscan_init(ctx, pattern, max_results)
          IN /\ ctx' = r.ctx
             /\ status' = r.st
             /\ pc' = IF r.st = FS_SUCCESS THEN "inited" ELSE "initfailed"
    /\ UNCHANGED <<file, scan, heap, os, tds, ex, reads, js>>

FastscanLoadFile ==
    /\ pc = "inited"
    /\ \E how \in Hows :
          LET r == fastscan_load_file(ctx, os, Len(file), how)
          IN /\ ctx' = r.ctx
             /\ os' = r.os
             /\ status' = r.st
             /\ pc' = IF r.st = FS_SUCCESS THEN "loaded" ELSE "loadfailed"
    /\ UNCHANGED <<file, scan, heap, tds, ex, reads, js>>

ExecuteDirect ==
    /\ pc = "loaded"
    /\ ctx.is_initialized # 0
    /\ TakesDirectPath(ctx)
    /\ \E allocOk \in BOOLEAN, pd \in Byte :
          LET r == ExecDirect(ctx, heap, RegionBytes, pd, allocOk)
          IN /\ ctx' = r.ctx
             /\ heap' = r.heap
             /\ status' = r.st
             /\ reads' = [lo |-> r.rlo, hi |-> r.rhi]
    /\ pc' = "executed"
    /\ UNCHANGED <<file, scan, os, tds, ex, js>>

\* nth = nproc > 1 ? nproc - 1 : 1, and the spawn loop.
ExecuteSpawn ==
    /\ pc = "loaded"
    /\ ctx.is_initialized # 0
    /\ ~TakesDirectPath(ctx)
    /\ \E nth \in 1..MaxWorkers :
          \E created \in [1..nth -> BOOLEAN] :
             /\ tds' = SpawnAll(ctx, nth, created)
             /\ ex' = [NoEx EXCEPT !.nth = nth,
                                   !.spawn_failed = \E w \in 1..nth : ~created[w]]
    /\ pc' = "workers"
    /\ UNCHANGED <<file, scan, ctx, heap, os, status, reads, js>>

WorkerThread(w) ==
    /\ pc = "workers"
    /\ tds[w].ph = "new"
    /\ \E failAt \in 0..MaxCap, pd \in Byte :
          LET r == Adopt(heap, worker_thread(WorkerArgs(ctx, RegionBytes, pd, failAt),
                                             tds[w]))
          IN /\ tds' = [tds EXCEPT ![w] = r.td]
             /\ heap' = r.heap
    /\ UNCHANGED <<file, scan, ctx, os, status, pc, ex, reads, js>>

ReadsOf(t) ==
    [lo |-> Minimum({t[w].rlo : w \in 1..Len(t)}),
     hi |-> -Minimum({-t[w].rhi : w \in 1..Len(t)})]

\* The join loop returns once every worker has: total, final_cnt, malloc.
\* pthread_join(threads[i], NULL) on a thread that was never created reads
\* an uninitialised pthread_t: the call returns an error, which the loop
\* ignores, or the process dies in it.
ExecuteJoin ==
    /\ pc = "workers"
    /\ \A w \in 1..Len(tds) : Terminated(tds[w])
    /\ \/ \E allocOk \in BOOLEAN :
             LET r == ExecJoin(ctx, heap, tds, allocOk)
             IN /\ ctx' = r.ctx
                /\ heap' = r.heap
                /\ tds' = IF r.st = FS_SUCCESS THEN r.tds ELSE <<>>
                /\ ex' = [r.ex EXCEPT !.nth = ex.nth,
                                      !.nomem = \E w \in 1..Len(tds) : tds[w].nomem]
                /\ status' = r.st
                /\ pc' = IF r.st = FS_SUCCESS THEN "merge" ELSE "executed"
       \/ /\ SpawnFailed(tds)
          /\ pc' = "crashed"
          /\ ex' = [ex EXCEPT !.joined_uncreated = TRUE]
          /\ UNCHANGED <<ctx, heap, tds, status>>
    /\ reads' = ReadsOf(tds)
    /\ UNCHANGED <<file, scan, os, js>>

\* One step of the merge; after the last worker's turn fastscan_execute
\* returns FS_SUCCESS and tds[] is gone.
ExecuteMerge ==
    /\ pc = "merge"
    /\ LET r == MergeStep(ctx, heap, tds, ex)
       IN /\ ctx' = r.ctx
          /\ heap' = r.heap
          /\ ex' = r.ex
          /\ IF r.ex.i >= Len(tds)
             THEN tds' = <<>> /\ pc' = "executed"
             ELSE tds' = r.tds /\ pc' = "merge"
    /\ UNCHANGED <<file, scan, os, status, reads, js>>

FastscanDestroy ==
    /\ pc \in {"inited", "loadfailed", "executed"}
    /\ LET r == fastscan_destroy(ctx, heap, os)
       IN /\ ctx' = r.ctx
          /\ heap' = r.heap
          /\ os' = r.os
    /\ pc' = "destroyed"
    /\ UNCHANGED <<file, scan, status, tds, ex, reads, js>>

Next ==
    \/ FastscanInit
    \/ FastscanLoadFile
    \/ ExecuteDirect
    \/ ExecuteSpawn
    \/ \E w \in 1..MaxWorkers : w <= Len(tds) /\ WorkerThread(w)
    \/ ExecuteJoin
    \/ ExecuteMerge
    \/ FastscanDestroy

Spec == Init /\ [][Next]_vars

(***************************************************************************)
(* The parallel path of fastscan_execute step by step: the coordinator's   *)
(* spawn and join loops one iteration at a time and each worker one loop   *)
(* iteration at a time, in any interleaving.  The context is the one left  *)
(* by fastscan_init and fastscan_load_file; scan.pd holds the bytes that   *)
(* lie around the mapping during this call.                                *)
(***************************************************************************)
WorkerFiles == {f \in Files : Len(f) >= SmallFileLimit}

\* The last one is longer than a chunk of two workers, so that a worker's
\* range starts before the region (C24).
WorkerPatterns == {CString(s) : s \in {<<1>>, <<1, 1>>, <<1, 1, 1, 1>>}}

\* One more than the largest cap of the other specifications, so that a
\* doubled capacity (1, 2, 4) exceeds the cap.
WorkerCaps == 0..(MaxCap + 1)

InitWorkers ==
    /\ file \in WorkerFiles
    /\ \E pattern \in WorkerPatterns, max_results \in WorkerCaps :
          \E r \in {fastscan_load_file(fastscan_init(ZeroCtx, pattern, max_results).ctx,
                                       InitOs, Len(file), "ok")} :
             /\ ctx = r.ctx
             /\ os = r.os
    /\ heap = <<>>
    /\ status = FS_SUCCESS
    /\ pc = "loaded"
    /\ tds = <<>>
    /\ ex = NoEx
    /\ reads = NoReads
    /\ js = NoJs
    /\ scan = NoScan

\* Lines 149-156: nth, threads[nth], tds[nth], chunk_sz.
ExecuteBegin ==
    /\ pc = "loaded"
    /\ ctx.is_initialized # 0
    /\ ~TakesDirectPath(ctx)
    /\ \E nth \in 1..MaxBridgeWorkers, pd \in Byte :
          /\ ex' = [NoEx EXCEPT !.nth = nth]
          /\ scan' = [NoScan EXCEPT !.pd = pd]
    /\ pc' = "spawning"
    /\ UNCHANGED <<file, ctx, heap, os, status, tds, reads, js>>

\* One iteration of the spawn loop: tds[i] is filled in and thread i created.
SpawnWorker ==
    /\ pc = "spawning"
    /\ \E ok \in BOOLEAN :
          /\ tds' = Append(tds, pthread_create(
                               NewThreadData(Len(tds), ex.nth, ctx.region.size,
                                             ctx.pattern_len, ctx.max_matches), ok))
          /\ ex' = [ex EXCEPT !.spawn_failed = @ \/ ~ok]
    /\ pc' = IF Len(tds) + 1 = ex.nth THEN "joining" ELSE "spawning"
    /\ UNCHANGED <<file, scan, ctx, heap, os, status, reads, js>>

\* thread_data_t* td = (thread_data_t*)arg: worker w works on tds[w] alone.
WorkerWrites_Shared(t, w, td) ==
    [v \in 1..Len(t) |-> IF v = w THEN td
                         ELSE [t[v] EXCEPT !.matches = td.matches,
                                           !.capacity = td.capacity]]
WorkerWrites(t, w, td) == [t EXCEPT ![w] = td]

\* One loop iteration of worker w; its realloc, when it calls it, returns
\* NULL or not.
WorkerStep(w) ==
    /\ pc \in {"spawning", "joining"}
    /\ tds[w].ph \notin {"done", "notcreated"}
    /\ \E fail \in BOOLEAN :
          \E r \in {Adopt(heap,
                          IF tds[w].ph = "new" THEN worker_begin(tds[w])
                          ELSE worker_step(WorkerArgs(ctx, RegionBytes, scan.pd,
                                               IF fail THEN tds[w].allocs + 1 ELSE 0),
                                           tds[w]))} :
             /\ tds' = WorkerWrites(tds, w, r.td)
             /\ heap' = r.heap
    /\ UNCHANGED <<file, scan, ctx, os, status, pc, ex, reads, js>>

\* One iteration of the join loop: pthread_join(threads[i]) returns, then
\* total += tds[i].count.  Joining a thread that was never created returns
\* an error, which the loop ignores, or the process dies in the call.
JoinWorker ==
    /\ pc = "joining"
    /\ ex.i < ex.nth
    /\ Terminated(tds[ex.i + 1])
    /\ \/ /\ ex' = [ex EXCEPT !.i = @ + 1,
                              !.total = @ + Len(tds[ex.i + 1].matches),
                              !.joined_uncreated = @ \/ tds[ex.i + 1].ph = "notcreated"]
          /\ pc' = "joining"
       \/ /\ tds[ex.i + 1].ph = "notcreated"
          /\ ex' = [ex EXCEPT !.joined_uncreated = TRUE]
          /\ pc' = "crashed"
    /\ UNCHANGED <<file, scan, ctx, heap, os, status, tds, reads, js>>

\* Lines 190-197: final_cnt and the final buffer's malloc.
AllocFinal ==
    /\ pc = "joining"
    /\ ex.i = ex.nth
    /\ \E allocOk \in BOOLEAN :
          \E r \in {ExecJoin(ctx, heap, tds, allocOk)} :
             /\ ctx' = r.ctx
             /\ heap' = r.heap
             /\ tds' = IF r.st = FS_SUCCESS THEN r.tds ELSE <<>>
             /\ ex' = [r.ex EXCEPT !.nth = ex.nth,
                                   !.nomem = \E w \in 1..Len(tds) : tds[w].nomem]
             /\ status' = r.st
             /\ pc' = IF r.st = FS_SUCCESS THEN "merge" ELSE "executed"
    /\ reads' = ReadsOf(tds)
    /\ UNCHANGED <<file, scan, os, js>>

NextWorkers ==
    \/ ExecuteBegin
    \/ SpawnWorker
    \/ \E w \in 1..MaxBridgeWorkers : w <= Len(tds) /\ WorkerStep(w)
    \/ JoinWorker
    \/ AllocFinal
    \/ ExecuteMerge

SpecWorkers == InitWorkers /\ [][NextWorkers]_vars

(***************************************************************************)
(* fastscan_execute as one call, for the bridge's handlers.                *)
(* ch = [nth, created, failAt, allocOk, pd]: what the call meets: the      *)
(* number of workers, which pthread_create calls succeed, which realloc of *)
(* each worker returns NULL, whether the final buffer's malloc succeeds,   *)
(* the bytes around the mapping.                                           *)
(***************************************************************************)
\* Worker n has run: its thread_data_t, and its buffer in the heap.
WorkerRan(prev, n, r) == [heap |-> r.heap, tds |-> [prev.tds EXCEPT ![n] = r.td]]

RunWorker(c, prev, d, ch, n) ==
    IF prev.tds[n].ph = "notcreated" THEN prev
    ELSE WorkerRan(prev, n,
                   Adopt(prev.heap,
                         worker_thread(WorkerArgs(c, d, ch.pd, ch.failAt[n]),
                                       prev.tds[n])))

\* Workers 1..n of w = [heap, tds] run to their end (their results do not
\* depend on the order).
RECURSIVE RunWorkers(_, _, _, _, _)
RunWorkers(c, w, d, ch, n) ==
    IF n = 0 THEN w ELSE RunWorker(c, RunWorkers(c, w, d, ch, n - 1), d, ch, n)

ExecResult(r) == [st |-> r.st, ctx |-> r.ctx, heap |-> r.heap]

ExecMerged(m) == [st |-> FS_SUCCESS, ctx |-> m.ctx, heap |-> m.heap]

ExecMerge(j) ==
    IF j.st # FS_SUCCESS THEN ExecResult(j)
    ELSE ExecMerged(MergeRun([ctx |-> j.ctx, heap |-> j.heap, tds |-> j.tds, ex |-> j.ex]))

ExecParallel(c, w, allocOk) == ExecMerge(ExecJoin(c, w.heap, w.tds, allocOk))

fastscan_execute(c, h, d, ch) ==
    IF c.is_initialized = 0 THEN [st |-> FS_ERROR_NULL_PTR, ctx |-> c, heap |-> h]
    ELSE IF TakesDirectPath(c)
    THEN ExecResult(ExecDirect(c, h, d, ch.pd, ch.allocOk))
    ELSE ExecParallel(c, RunWorkers(c, [heap |-> h,
                                        tds |-> SpawnAll(c, ch.nth, ch.created)],
                                    d, ch, ch.nth),
                      ch.allocOk)

\* What one scan can meet.
Choices ==
    [nth : 1..MaxBridgeWorkers, created : [1..MaxBridgeWorkers -> BOOLEAN],
     failAt : [1..MaxBridgeWorkers -> 0..MaxCap], allocOk : BOOLEAN, pd : Byte]

\* The scan calls pthread_join for a thread that was never created (a
\* direct-path scan is drawn with every created[w] true): the process may
\* die in that call.
JoinsUncreated(ch) == \E w \in 1..ch.nth : ~ch.created[w]

\* The choices that matter for a region of this size.
ChoicesFor(size) ==
    IF size < SmallFileLimit
    THEN {ch \in Choices :
            ch.nth = 1 /\ \A w \in 1..MaxBridgeWorkers : ch.created[w] /\ ch.failAt[w] = 0}
    ELSE {ch \in Choices :
            \A w \in 1..MaxBridgeWorkers :
                /\ w > ch.nth => ch.created[w] /\ ch.failAt[w] = 0
                /\ ~ch.created[w] => ch.failAt[w] = 0}

(***************************************************************************)
(* addon.c: the bridge.                                                    *)
(***************************************************************************)
\* ctx.matches = NULL;  /  async_data->matches = NULL;
Detach_Keep(holder) == holder
Detach(holder) == [holder EXCEPT !.matches = 0]

\* The message CompleteScan rejects with.
ErrStr(st) ==
    CASE st = FS_ERROR_OPEN_FAILED -> "File not found"
      [] st = FS_ERROR_MMAP_FAILED -> "Memory mapping failed"
      [] st = FS_ERROR_OUT_OF_BOUNDS -> "Buffer allocation failed"
      [] st = FS_ERROR_INVALID_ARG -> "Invalid argument"
      [] OTHER -> "Unknown Error"

\* index.js: const ErrorClass = ERROR_MAP[err.message] || FastScanError
ERROR_MAP(message) ==
    CASE message = "File not found" -> "FileNotFoundError"
      [] message = "Memory mapping failed" -> "MappingError"
      [] message = "Buffer allocation failed" -> "MemoryError"
      [] OTHER -> "FastScanError"

Throw(j, msg) == [j EXCEPT !.outcome = "throw", !.msg = msg]

\* sizeof(file_path) and sizeof(pattern), scaled to the strings drawn: the
\* longest pattern of PatternStrings fills its buffer with its NUL.
PathBufSize == 3
PatternBufSize == 4

\* napi_get_value_string_utf8(env, value, buf, bufsize, &len): at most
\* bufsize - 1 bytes of the string are copied, a NUL is written after them,
\* and len is the number of bytes copied.
napi_get_value_string_utf8(s, bufsize) ==
    LET copied == Min(Len(s), bufsize - 1)
    IN [buf |-> CString(SubSeq(s, 1, copied)), len |-> copied]

\* if (len >= sizeof(buf)) return throw_error(env, "... too long")
TooLong(s, len, bufsize) == len >= bufsize

\* The strings JavaScript passes as the pattern: those drawn for the core,
\* one whose length is the buffer's size, and one that holds a zero byte
\* ("a\0a": a JavaScript string is not ended by U+0000).
JsPatterns == PatternStrings \cup {[k \in 1..PatternBufSize |-> 1], <<1, 0, 1>>}

\* The paths JavaScript passes: one that fits its buffer, one whose length
\* is the buffer's size.
JsPaths == {<<1>>, [k \in 1..PathBufSize |-> 1]}

\* The arguments copied into the buffers.
Marshal(call, path, pattern) ==
    [NoJs EXCEPT !.call = call, !.arg_path = path, !.arg_pattern = pattern,
                 !.file_path = napi_get_value_string_utf8(path, PathBufSize).buf,
                 !.pattern = napi_get_value_string_utf8(pattern, PatternBufSize).buf]

\* The message of the length checks, "" when both pass.
LengthError(j) ==
    IF TooLong(j.arg_path, strlen(j.file_path), PathBufSize)
    THEN "File path too long"
    ELSE IF TooLong(j.arg_pattern, strlen(j.pattern), PatternBufSize)
    THEN "Pattern too long"
    ELSE ""

\* fastscan_destroy(&ctx), then the return to JavaScript.
SyncReturn(st, d, j) == [st |-> st, ctx |-> d.ctx, heap |-> d.heap, os |-> d.os, js |-> j]

\* After fastscan_execute: the result array, or the throw.
SyncAfterExecute(e, o, j0) ==
    IF e.st # FS_SUCCESS
    THEN SyncReturn(e.st, fastscan_destroy(e.ctx, e.heap, o),
                    Throw(j0, "Error during scanning process"))
    ELSE IF e.ctx.match_count > 0
    THEN SyncReturn(e.st, fastscan_destroy(Detach(e.ctx), e.heap, o),
                    [j0 EXCEPT !.external = {e.ctx.matches}, !.outcome = "typedarray",
                               !.length = e.ctx.match_count])
    ELSE SyncReturn(e.st, fastscan_destroy(e.ctx, e.heap, o),
                    [j0 EXCEPT !.outcome = "array"])

SyncAfterLoad(l, h, ch, j0) ==
    IF l.st # FS_SUCCESS
    THEN SyncReturn(l.st, fastscan_destroy(l.ctx, h, l.os),
                    Throw(j0, IF l.st = FS_ERROR_OPEN_FAILED
                              THEN "Failed to open file"
                              ELSE "Failed to map file to memory"))
    ELSE SyncAfterExecute(
             fastscan_execute(l.ctx, h, IF l.ctx.region.data # 0 THEN file ELSE <<>>, ch),
             l.os, j0)

SyncAfterInit(i, h, o, how, ch, j0) ==
    IF i.st # FS_SUCCESS
    THEN [st |-> i.st, ctx |-> i.ctx, heap |-> h, os |-> o,
          js |-> Throw(j0, "Failed to initialize scanner")]
    ELSE SyncAfterLoad(fastscan_load_file(i.ctx, o, Len(file), how), h, ch, j0)

\* ScanFileSync after its argument checks: init, load, execute, the result,
\* fastscan_destroy on every path past a successful init.
ScanFileSyncRun(h, o, j0, max_matches, how, ch) ==
    SyncAfterInit(fastscan_init(ZeroCtx, j0.pattern, max_matches), h, o, how, ch, j0)

ScanFileSync ==
    /\ pc = "new"
    /\ \E path \in JsPaths, pattern \in JsPatterns, max_matches \in 0..MaxCap :
        \E j0 \in {Marshal("sync", path, pattern)} :
          IF LengthError(j0) # ""
          THEN /\ js' = Throw(j0, LengthError(j0))
               /\ pc' = "returned"
               /\ UNCHANGED <<ctx, heap, os, status>>
          ELSE IF max_matches <= 0
          THEN /\ js' = Throw(j0, "maxMatches must be positive")
               /\ pc' = "returned"
               /\ UNCHANGED <<ctx, heap, os, status>>
          ELSE \E how \in Hows :
                 \E ch \in ChoicesFor(IF how = "ok" THEN Len(file) ELSE 0) :
                    \/ \E r \in {ScanFileSyncRun(heap, os, j0, max_matches, how, ch)} :
                          /\ ctx' = r.ctx
                          /\ heap' = r.heap
                          /\ os' = r.os
                          /\ status' = r.st
                          /\ js' = r.js
                          /\ pc' = "returned"
                    \/ /\ JoinsUncreated(ch)
                       /\ js' = j0
                       /\ pc' = "crashed"
                       /\ UNCHANGED <<ctx, heap, os, status>>
    /\ UNCHANGED <<file, scan, tds, ex, reads>>

\* ScanFileAsync: malloc(AsyncScanData), the argument checks, the promise,
\* the queued work.
ScanFileAsync ==
    /\ pc = "new"
    /\ \E path \in JsPaths, pattern \in JsPatterns, max_matches \in 0..MaxCap :
          LET h1 == Malloc(heap, "async_data")
              j0 == Marshal("async", path, pattern)
          IN IF LengthError(j0) # ""
             THEN /\ heap' = Free(h1, Len(h1), "ScanFileAsync")
                  /\ js' = Throw(j0, LengthError(j0))
                  /\ pc' = "returned"
             ELSE IF max_matches <= 0
             THEN /\ heap' = Free(h1, Len(h1), "ScanFileAsync")
                  /\ js' = Throw(j0, "maxMatches must be positive")
                  /\ pc' = "returned"
             ELSE /\ heap' = h1
                  /\ js' = [j0 EXCEPT !.async_data = Len(h1),
                                      !.max_matches = max_matches,
                                      !.outcome = "promise"]
                  /\ pc' = "queued"
    /\ UNCHANGED <<file, scan, ctx, os, status, tds, ex, reads>>

\* ExecuteScan, on the worker pool: init, load, execute on a local context,
\* the result moved into the AsyncScanData, fs_mmap_close.
AsyncAfterScan(r, c, j) ==
    [st |-> r.st, heap |-> r.heap, os |-> c.os,
     ctx |-> [Detach(r.ctx) EXCEPT !.region = c.region],
     js |-> [j EXCEPT !.scan_status = r.st, !.matches = r.ctx.matches,
                      !.match_count = r.ctx.match_count]]

AsyncClose(r, j) == AsyncAfterScan(r, fs_mmap_close(r.os, r.ctx.region), j)

AsyncAfterExecute(e, o, j) ==
    AsyncClose([st |-> e.st, ctx |-> e.ctx, heap |-> e.heap, os |-> o], j)

AsyncAfterLoad(l, h, ch, j) ==
    IF l.st # FS_SUCCESS
    THEN AsyncClose([st |-> l.st, ctx |-> l.ctx, heap |-> h, os |-> l.os], j)
    ELSE AsyncAfterExecute(
             fastscan_execute(l.ctx, h, IF l.ctx.region.data # 0 THEN file ELSE <<>>, ch),
             l.os, j)

AsyncAfterInit(i, h, o, how, ch, j) ==
    IF i.st # FS_SUCCESS
    THEN AsyncClose([st |-> i.st, ctx |-> i.ctx, heap |-> h, os |-> o], j)
    ELSE AsyncAfterLoad(fastscan_load_file(i.ctx, o, Len(file), how), h, ch, j)

ExecuteScanRun(h, o, j, how, ch) ==
    AsyncAfterInit(fastscan_init(ZeroCtx, j.pattern, j.max_matches), h, o, how, ch, j)

ExecuteScan ==
    /\ pc = "queued"
    /\ \E how \in Hows :
          \E ch \in ChoicesFor(IF how = "ok" THEN Len(file) ELSE 0) :
             \/ \E r \in {ExecuteScanRun(heap, os, js, how, ch)} :
                   /\ ctx' = r.ctx
                   /\ heap' = r.heap
                   /\ os' = r.os
                   /\ status' = r.st
                   /\ js' = r.js
                   /\ pc' = "ran"
             \/ /\ JoinsUncreated(ch)
                /\ pc' = "crashed"
                /\ UNCHANGED <<ctx, heap, os, status, js>>
    /\ UNCHANGED <<file, scan, tds, ex, reads>>

\* CompleteScan with status napi_ok, on the main thread.
CompleteScanRun(h, j) ==
    LET settled ==
            IF j.scan_status # FS_SUCCESS
            THEN [j EXCEPT !.outcome = "rejected", !.msg = ErrStr(j.scan_status)]
            ELSE IF j.match_count > 0
            THEN [Detach(j) EXCEPT !.external = @ \cup {j.matches},
                                   !.outcome = "resolved", !.length = j.match_count]
            ELSE [j EXCEPT !.outcome = "resolved"]
        h1 == Free(h, settled.matches, "CompleteScan")
    IN [heap |-> Free(h1, j.async_data, "CompleteScan"),
        js |-> [settled EXCEPT !.matches = 0, !.async_data = 0]]

\* What an uninitialised async_data->matches can hold: NULL, the address
\* of an allocation, or an address that is none (-1).
Garbage(h) == {-1} \cup (0..Len(h))

\* CompleteScan with a status other than napi_ok (the work was cancelled
\* before ExecuteScan ran): the rejection, then `if (async_data->matches)
\* free(async_data->matches)` on the value g nothing assigned.
CompleteScanCancelled(h, j, g) ==
    LET rejected == [j EXCEPT !.outcome = "rejected", !.msg = "Async internal failure",
                              !.uninit = @ \cup {g}]
        h1 == IF g > 0 THEN Free(h, g, "CompleteScan") ELSE h
    IN IF g = -1
       THEN [heap |-> h, js |-> rejected, pc |-> "crashed"]
       ELSE [heap |-> Free(h1, j.async_data, "CompleteScan"),
             js |-> [rejected EXCEPT !.async_data = 0], pc |-> "returned"]

\* The completion callback of the queued work, on the main thread: after
\* ExecuteScan with napi_ok, or instead of it with napi_cancelled.
CompleteScan ==
    /\ \/ /\ pc = "ran"
          /\ LET r == CompleteScanRun(heap, js)
             IN heap' = r.heap /\ js' = r.js
          /\ pc' = "returned"
       \/ /\ pc = "queued"
          /\ \E g \in Garbage(heap) :
                LET r == CompleteScanCancelled(heap, js, g)
                IN heap' = r.heap /\ js' = r.js /\ pc' = r.pc
    /\ UNCHANGED <<file, scan, ctx, os, status, tds, ex, reads>>

\* The finalizer of an external ArrayBuffer: free(data).
FreeMatchesCallback(data) ==
    /\ data \in js.external \ js.finalized
    /\ heap' = Free(heap, data, "FreeMatchesCallback")
    /\ js' = [js EXCEPT !.finalized = @ \cup {data}]
    /\ UNCHANGED <<file, scan, ctx, os, status, pc, tds, ex, reads>>

NextBridge ==
    \/ ScanFileSync
    \/ ScanFileAsync
    \/ ExecuteScan
    \/ CompleteScan
    \/ \E data \in 1..Len(heap) : FreeMatchesCallback(data)

SpecBridge == Init /\ [][NextBridge]_vars

\* The event loop calls the completion callback of every work that was queued,
\* after its execution or with the cancelled status (addon.c:47).
SpecBridgeFair ==
    /\ Init
    /\ [][NextBridge]_vars
    /\ WF_vars(CompleteScan)

(***************************************************************************)
(* The core's four entry points called in any order on one context, each   *)
(* call as a whole: what a caller other than the bridge may do.  pc is     *)
(* "new" until an init has succeeded, then "live"; fastscan_destroy leads  *)
(* to "destroyed" and, called again, to "destroyed_twice"; fs_mmap_close   *)
(* on the context's Region leads to "closed" and then "closed_twice".      *)
(* The calls stop when MaxOpen descriptors are held or MaxHeap buffers     *)
(* have been allocated.  What these sequences acquire and release  *)
(* depends on the file's size and on whether the scan finds anything, not  *)
(* on which bytes match: the files are runs of one byte value, of every    *)
(* size, and the patterns NULL and the runs of that value.                 *)
(***************************************************************************)
MaxOpen == 2
MaxHeap == 3

\* What an execute of these sequences meets: every worker is created and no
\* realloc fails.
LifecycleChoices(size) ==
    {ch \in ChoicesFor(size) :
        \A w \in 1..MaxBridgeWorkers : ch.created[w] /\ ch.failAt[w] = 0}

LifecycleFiles == {[k \in 1..n |-> 1] : n \in 0..MaxLen}

LifecyclePatterns ==
    {<<>>} \cup {CString([k \in 1..n |-> 1]) : n \in 0..MaxPat}

InitLifecycle == Init /\ file \in LifecycleFiles

CallInit ==
    /\ pc \in {"new", "live"}
    /\ \E pattern \in LifecyclePatterns, max_results \in 0..MaxCap :
          LET r == fastscan_init(ctx, pattern, max_results)
          IN /\ ctx' = r.ctx
             /\ status' = r.st
             /\ pc' = IF r.st = FS_SUCCESS THEN "live" ELSE pc
    /\ UNCHANGED <<file, scan, heap, os, tds, ex, reads, js>>

CallLoadFile ==
    /\ pc = "live"
    /\ Cardinality(os.owned) < MaxOpen
    /\ \E how \in Hows :
          LET r == fastscan_load_file(ctx, os, Len(file), how)
          IN /\ ctx' = r.ctx
             /\ os' = r.os
             /\ status' = r.st
    /\ UNCHANGED <<file, scan, heap, pc, tds, ex, reads, js>>

CallExecute ==
    /\ pc = "live"
    /\ Len(heap) < MaxHeap
    /\ \E ch \in LifecycleChoices(ctx.region.size) :
          \E r \in {fastscan_execute(ctx, heap, RegionBytes, ch)} :
             /\ ctx' = r.ctx
             /\ heap' = r.heap
             /\ status' = r.st
    /\ UNCHANGED <<file, scan, os, pc, tds, ex, reads, js>>

CallDestroy ==
    /\ pc \in {"live", "destroyed"}
    /\ LET r == fastscan_destroy(ctx, heap, os)
       IN /\ ctx' = r.ctx
          /\ heap' = r.heap
          /\ os' = r.os
    /\ pc' = IF pc = "live" THEN "destroyed" ELSE "destroyed_twice"
    /\ UNCHANGED <<file, scan, status, tds, ex, reads, js>>

\* fs_mmap_close(&ctx.region), as ExecuteScan calls it.
CallMmapClose ==
    /\ pc \in {"live", "closed"}
    /\ LET r == fs_mmap_close(os, ctx.region)
       IN /\ ctx' = [ctx EXCEPT !.region = r.region]
          /\ os' = r.os
    /\ pc' = IF pc = "live" THEN "closed" ELSE "closed_twice"
    /\ UNCHANGED <<file, scan, heap, status, tds, ex, reads, js>>

NextLifecycle ==
    \/ CallInit
    \/ CallLoadFile
    \/ CallExecute
    \/ CallDestroy
    \/ CallMmapClose

SpecLifecycle == InitLifecycle /\ [][NextLifecycle]_vars

(***************************************************************************)
(* fs_scan_raw called on its own: the same arguments handed to scanner.c's *)
(* implementation and to the variant, on the inputs drawn above at the     *)
(* scaled vector width and on the file and pattern of test.js at the       *)
(* source's 16 bytes and 5-byte path.                                      *)
(***************************************************************************)
\* test.js: content, "ERROR" and the cap of its scanFile call.
TestContent ==
    <<72, 101, 108, 108, 111, 32, 87, 111, 114, 108, 100, 10,
      69, 82, 82, 79, 82, 58, 32, 83, 111, 109, 101, 116, 104, 105, 110, 103,
      32, 98, 114, 111, 107, 101, 10,
      73, 78, 70, 79, 58, 32, 65, 108, 108, 32, 103, 111, 111, 100, 10,
      69, 82, 82, 79, 82, 58, 32, 65, 110, 111, 116, 104, 101, 114, 32,
      101, 114, 114, 111, 114, 10>>
TestPattern == <<69, 82, 82, 79, 82>>
TestCap == 100
\* What may follow the mapped file: zero fill, or bytes that continue it.
TestPads == {0, 69, 82}

ScanCalls ==
    [buf : {CString(s) : s \in PatternStrings \ {<<>>}}, cap : 0..MaxCap,
     pd : Byte, align : 0..(VecBytes - 1), vw : {VecBytes}, sl : {SpecialisedLen}]

TestCalls ==
    [buf : {CString(TestPattern)}, cap : {TestCap}, pd : TestPads,
     align : 0..(SseBytes - 1), vw : {SseBytes}, sl : {FiveBytePath}]

NewScan(call) ==
    [NoScan EXCEPT !.buf = call.buf, !.P = strlen(call.buf), !.cap = call.cap,
                   !.pd = call.pd, !.align = call.align, !.vw = call.vw,
                   !.sl = call.sl]

InitScan ==
    /\ ctx = ZeroCtx
    /\ heap = <<>>
    /\ os = InitOs
    /\ status = FS_SUCCESS
    /\ pc = "new"
    /\ tds = <<>>
    /\ ex = NoEx
    /\ reads = NoReads
    /\ js = NoJs
    /\ \/ file \in Files /\ \E call \in ScanCalls : scan = NewScan(call)
       \/ file = TestContent /\ \E call \in TestCalls : scan = NewScan(call)

RawArgs ==
    [d |-> file, buf |-> scan.buf, P |-> scan.P, cap |-> scan.cap, pd |-> scan.pd,
     vw |-> scan.vw, sl |-> scan.sl, align |-> scan.align]

\* scanner.c's fs_scan_raw, one step at a time: its entry checks, then one
\* stride's prefilter, one candidate or one byte of the tail per step.
ScanGeneric ==
    /\ "generic" \notin scan.ran
    /\ \E s \in {IF scan.gs.ph = "new" THEN fs_scan_begin(RawArgs)
                  ELSE fs_scan_step(RawArgs, scan.gs)} :
          scan' = [scan EXCEPT !.gs = s, !.generic = s.out,
                               !.ran = IF s.ph = "done" THEN @ \cup {"generic"} ELSE @]
    /\ UNCHANGED <<file, ctx, heap, os, status, pc, tds, ex, reads, js>>

ScanVariant ==
    /\ "variant" \notin scan.ran
    /\ scan' = [scan EXCEPT !.variant = fs_scan_raw_variant(RawArgs).out,
                            !.ran = @ \cup {"variant"}]
    /\ UNCHANGED <<file, ctx, heap, os, status, pc, tds, ex, reads, js>>

NextScan ==
    \/ ScanGeneric
    \/ ScanVariant

SpecScan == InitScan /\ [][NextScan]_vars

(***************************************************************************)
(* What the claims speak of.                                               *)
(***************************************************************************)
\* The pattern scanned for: the pattern_len bytes at ctx.pattern.
PatternOf(c) == SubSeq(c.pattern, 1, c.pattern_len)

Returned == pc = "executed" /\ status = FS_SUCCESS

OnParallelPath == ex.nth >= 1

\* C1: after a successful init, load and execute with P >= 1 and cap >= 1
\* the match list is the first min(M, cap) offsets of the naive scan,
\* ascending, on the direct and on the parallel path.
C1_FirstOfNaive ==
    (Returned /\ ctx.pattern_len >= 1 /\ ctx.max_matches >= 1)
        => /\ ctx.mdata = FirstN(Naive(file, PatternOf(ctx)), ctx.max_matches)
           /\ ctx.match_count = Len(ctx.mdata)

\* C2: the parallel path leaves the match list and the match_count that one
\* run of fs_scan_raw over the whole region writes, for every worker count
\* and every cap.
C2_ParallelEqualsRaw ==
    (Returned /\ OnParallelPath /\ ctx.pattern_len >= 1) =>
        \A pd \in Byte :
            LET s == fs_scan_raw(ScanArgs(ctx, file, pd))
            IN ctx.mdata = s.out /\ ctx.match_count = Len(s.out)

\* The logical chunks of the parallel path: worker v (0-based) owns
\* [v * chunk_sz, (v + 1) * chunk_sz), the last one up to the size.
ChunkSz == Len(file) \div ex.nth

Boundaries == {w * ChunkSz : w \in 1..(ex.nth - 1)}

Owner(o) == Min(o \div ChunkSz, ex.nth - 1)

\* The occurrences whose P bytes straddle a boundary L: they start in
\* [L - P + 1, L - 1].
Straddling ==
    {o \in NaiveSet(file, PatternOf(ctx)) :
        \E L \in Boundaries : L - ctx.pattern_len + 1 <= o /\ o <= L - 1}

Recorded(w) == {tds[w].matches[k] : k \in 1..Len(tds[w].matches)}

Count(q, o) == Cardinality({k \in 1..Len(q) : q[k] = o})

\* Every worker has returned and the coordinator has not yet returned.
WorkersReturned ==
    \/ pc = "workers" /\ \A w \in 1..Len(tds) : Terminated(tds[w])
    \/ pc = "merge"

\* C3 as stated: every occurrence that straddles a chunk boundary is
\* recorded by exactly one worker, its owner, and the merged list holds it
\* exactly once.
C3_StraddlingExactlyOnce ==
    /\ (WorkersReturned /\ ctx.max_matches >= 1) =>
          \A o \in Straddling : {w \in 1..Len(tds) : o \in Recorded(w)} = {Owner(o) + 1}
    /\ (Returned /\ OnParallelPath /\ ctx.max_matches >= 1) =>
          \A o \in Straddling : Count(ctx.mdata, o) = 1

\* C3 amended: a straddling occurrence is recorded by no worker but its
\* owner (a worker that meets it in its overlap prefix discards it), by the
\* owner at most once, and by the owner as soon as the owner's scan has
\* passed it (p lies beyond it); the merged list holds it at most once.
C3_StraddlingOwnerOnly ==
    /\ WorkersReturned =>
          \A o \in Straddling :
              /\ \A w \in 1..Len(tds) :
                    o \in Recorded(w) =>
                        w = Owner(o) + 1 /\ Count(tds[w].matches, o) = 1
              /\ tds[Owner(o) + 1].p > o => o \in Recorded(Owner(o) + 1)
    /\ (Returned /\ OnParallelPath) =>
          \A o \in Straddling : Count(ctx.mdata, o) <= 1

\* Two workers; the second meets a straddling occurrence in its overlap
\* prefix and drops it, the first has recorded it.
C3_Witness ==
    /\ WorkersReturned /\ ex.nth = 2
    /\ \E o \in Straddling :
          /\ tds[2].start <= o /\ o < tds[2].true_chunk_start
          /\ o \in Recorded(1) /\ o \notin Recorded(2)

\* C4: fs_scan_raw and worker_thread load region bytes only at indices in
\* [0, data_len), the loads that verify a candidate included (stated for
\* the patterns and caps the specification admits: P >= 1, cap >= 1).
C4_ReadsInsideRegion ==
    (ctx.pattern_len >= 1 /\ ctx.max_matches >= 1)
        => reads.lo >= 0 /\ reads.hi < Len(file)

\* C5: in every state, the merge's intermediate states included,
\* match_count <= cap and no offset lies at an index at or beyond the final
\* buffer's capacity, which is cap entries on the direct path and
\* min(sum of the workers' counts, cap) on the parallel path.
C5_CountWithinCap ==
    /\ ctx.match_count <= ctx.max_matches
    /\ Len(ctx.mdata) <= ctx.mcap
    /\ ctx.matches # 0 =>
          ctx.mcap = IF OnParallelPath THEN Min(ex.total, ctx.max_matches)
                     ELSE ctx.max_matches

\* The merge has filled the final buffer and workers hold more.
C5_Witness ==
    /\ pc = "merge" /\ ex.final_cnt >= 1
    /\ ctx.match_count = ex.final_cnt /\ ex.final_cnt < ex.total

\* C6: after every successful execute the match list is strictly ascending,
\* on both paths, also when a worker stopped at its cap or on a failed realloc.
C6_StrictlyAscending == Returned => StrictlyAscending(ctx.mdata)

\* C7: every offset of the match list lies in [0, size - P] and is an
\* occurrence of the pattern, whatever bytes follow the data.
C7_OffsetsAreOccurrences ==
    \A k \in 1..Len(ctx.mdata) :
        /\ 0 <= ctx.mdata[k] /\ ctx.mdata[k] <= Len(file) - ctx.pattern_len
        /\ IsOccurrence(file, PatternOf(ctx), ctx.mdata[k])

\* C10: fastscan_init returns FS_SUCCESS only for a pattern of length >= 1
\* and a cap > 0 (and FS_ERROR_INVALID_ARG, storing nothing, otherwise).
C10_InitValidates ==
    /\ pc = "inited" => ctx.pattern_len >= 1 /\ ctx.max_matches > 0
    /\ (pc = "initfailed" /\ status = FS_ERROR_INVALID_ARG) => ctx = ZeroCtx

\* C11: when a pthread_create of the parallel path fails, fastscan_execute
\* returns FS_ERROR_OPEN_FAILED with no match list in the context, and it
\* never calls pthread_join for a thread that was not created.
C11_SpawnFailureHandled ==
    /\ ~ex.joined_uncreated
    /\ (pc = "executed" /\ ex.spawn_failed) =>
          status = FS_ERROR_OPEN_FAILED /\ ctx.matches = 0

IsPrefix(q, r) == Len(q) <= Len(r) /\ SubSeq(r, 1, Len(q)) = q

\* The workers' buffers, one after the other in worker-index order.
RECURSIVE ConcatMatches(_, _)
ConcatMatches(t, n) ==
    IF n = 0 THEN <<>> ELSE ConcatMatches(t, n - 1) \o t[n].matches

\* What worker w collects when none of its realloc calls fails.
Unfailing(w, pd) ==
    worker_thread(WorkerArgs(ctx, RegionBytes, pd, 0),
                  NewThreadData(w - 1, ex.nth, ctx.region.size, ctx.pattern_len,
                                ctx.max_matches)).matches

\* A worker whose realloc returned NULL has returned, keeping the offsets it
\* had collected (as many as its buffer held, the first of those it would
\* have collected), and the scan does not fail for it: it ends with
\* FS_SUCCESS unless the final buffer's malloc returns NULL.
C12_WorkerKeepsCollected ==
    /\ pc \in {"workers", "merge"} =>
          \A w \in 1..Len(tds) :
              tds[w].nomem =>
                  /\ tds[w].ph = "done"
                  /\ Len(tds[w].matches) = tds[w].capacity
                  /\ \E pd \in Byte : IsPrefix(tds[w].matches, Unfailing(w, pd))
    /\ (pc = "executed" /\ ex.nomem) =>
          \/ status = FS_SUCCESS
          \/ status = FS_ERROR_OUT_OF_BOUNDS /\ ctx.matches = 0

\* The merge ends with the workers' buffers concatenated in worker-index
\* order and truncated to the cap.
C12_MergeConcatenates ==
    (pc = "merge" /\ pc' = "executed") =>
        /\ status' = FS_SUCCESS
        /\ ctx'.mdata = FirstN(ConcatMatches(tds, Len(tds)), ctx.max_matches)
        /\ ctx'.match_count = Len(ctx'.mdata)

C13_SecondCallDoesNothing ==
    \/ pc = "destroyed" /\ pc' = "destroyed_twice"
    \/ pc = "closed" /\ pc' = "closed_twice"
    => ctx' = ctx /\ heap' = heap /\ os' = os

C13_DestroyIdempotent == [][C13_SecondCallDoesNothing]_vars

\* fastscan_destroy has run twice on a context whose scan had left a
\* mapping and a match list for the first call to release.
C13_Witness ==
    /\ pc = "destroyed_twice"
    /\ ctx.region.fd = -1 /\ os.maps = 0
    /\ \E id \in 1..Len(heap) : heap[id].frees = <<"fastscan_destroy">>

\* C20: after any sequence of init, load and execute calls on one context,
\* fastscan_destroy leaves no descriptor, mapping or buffer of the context
\* unreleased (these sequences detach no buffer).
C20_DestroyReleasesAll ==
    pc = "destroyed" =>
        /\ os.owned = {} /\ os.maps = 0
        /\ \A id \in 1..Len(heap) : heap[id].frees # <<>>

\* C14: when region.size < P (the empty file included), for a cap >= 1,
\* with every worker created and the result buffer allocated, execute
\* returns FS_SUCCESS with match_count = 0 and has loaded no byte of the
\* region.
C14_ShortRegionNoMatch ==
    (pc = "executed" /\ ctx.region.size < ctx.pattern_len
                     /\ ctx.max_matches >= 1 /\ ~ex.spawn_failed
                     /\ status # FS_ERROR_OUT_OF_BOUNDS) =>
        /\ status = FS_SUCCESS
        /\ ctx.match_count = 0
        /\ reads.hi < 0

\* C15: fs_mmap_open returns FS_ERROR_OPEN_FAILED when the path cannot be
\* opened, is not a regular file or cannot be fstat-ed, returns
\* FS_ERROR_MMAP_FAILED only when the mapping call fails on a regular file,
\* and returns FS_SUCCESS only with a Region of the file's size.
C15_OpenStatuses ==
    pc \in {"loaded", "loadfailed"} =>
        /\ os.met \in {"open", "fstat", "directory", "device"}
              => status = FS_ERROR_OPEN_FAILED
        /\ status = FS_ERROR_MMAP_FAILED => os.met = "mmap"
        /\ (status = FS_SUCCESS /\ os.met = "ok") => ctx.region.size = Len(file)

\* C16: at both entry points a failing core status reaches JavaScript with
\* the message of the error mapping, so that index.js raises
\* FileNotFoundError, MappingError or MemoryError for FS_ERROR_OPEN_FAILED,
\* FS_ERROR_MMAP_FAILED or FS_ERROR_OUT_OF_BOUNDS.
C16_ErrorMessages ==
    (pc = "returned" /\ status # FS_SUCCESS) =>
        /\ js.outcome \in {"throw", "rejected"}
        /\ js.msg = ErrStr(status)
        /\ status = FS_ERROR_OPEN_FAILED => ERROR_MAP(js.msg) = "FileNotFoundError"
        /\ status = FS_ERROR_MMAP_FAILED => ERROR_MAP(js.msg) = "MappingError"
        /\ status = FS_ERROR_OUT_OF_BOUNDS => ERROR_MAP(js.msg) = "MemoryError"

\* The same for scanFileAsync alone, js.msg being the string CompleteScan
\* rejects with (napi_reject_deferred is given a string value, addon.c:62).
C16_AsyncErrorMessages == js.call = "async" => C16_ErrorMessages

\* The call of test.js: its file, its pattern, its cap.
IsTestCall ==
    /\ file = TestContent
    /\ scan.buf = CString(TestPattern)
    /\ scan.cap = TestCap

\* C17 as stated: for the file, pattern "ERROR" and cap 100 of test.js the
\* scan returns exactly the two offsets [12, 46].
C17_TestOffsetsAsStated ==
    (IsTestCall /\ "generic" \in scan.ran) => scan.generic = <<12, 46>>

\* C17, amended: for the file, pattern "ERROR" and cap 100 of test.js the
\* scan returns exactly the two offsets [12, 50], the offsets at which the
\* two ERROR tokens start, whichever implementation of fs_scan_raw is built
\* and whatever follows the file in memory.
C17_TestOffsets ==
    IsTestCall =>
        /\ "generic" \in scan.ran =>
               scan.generic = <<12, 50>> /\ scan.generic = Naive(file, TestPattern)
        /\ "variant" \in scan.ran => scan.variant = <<12, 50>>

C17_Witness ==
    /\ IsTestCall
    /\ scan.ran = {"generic", "variant"}
    /\ Len(scan.generic) = 2

\* C18: the two implementations of fs_scan_raw write the same offsets and
\* the same match_count for every data, pattern and cap, whatever the
\* alignment of data and the bytes after data + data_len.
C18_SameResults ==
    (scan.ran = {"generic", "variant"} /\ scan.P >= 1 /\ scan.cap >= 1) =>
        scan.generic = scan.variant

\* An argument of the call is as long as its buffer or longer.
ArgumentTooLong ==
    \/ Len(js.arg_path) >= PathBufSize
    \/ Len(js.arg_pattern) >= PatternBufSize

\* C19: the bridge never scans with a truncated argument: a call whose path
\* or pattern is as long as its buffer or longer is rejected with "File path
\* too long" / "Pattern too long" before a context is initialised, and a
\* call that gets further holds its arguments whole.
C19_NoTruncatedArgument ==
    js.call # "none" =>
        /\ ArgumentTooLong =>
               /\ js.outcome = "throw"
               /\ js.msg \in {"File path too long", "Pattern too long"}
               /\ ctx = ZeroCtx
        /\ js.outcome # "throw" =>
               /\ js.file_path = CString(js.arg_path)
               /\ js.pattern = CString(js.arg_pattern)

\* A worker that was created and has not returned yet.
Running(td) == td.ph \notin {"done", "notcreated"}

\* While a worker runs, fastscan_execute is in its join loop and the region
\* is mapped.
C22_RegionMappedWhileRunning ==
    (\E w \in 1..Len(tds) : Running(tds[w])) =>
        /\ pc = "workers"
        /\ ctx.region.data # 0
        /\ os.maps > 0

\* The step that leaves the join loop is taken with every worker returned.
C22_LeavesJoinLoopAfterWorkers ==
    (pc = "workers" /\ pc' # "workers") => \A w \in 1..Len(tds) : ~Running(tds[w])

\* C22: fastscan_execute starts the merge, frees worker buffers and returns
\* only after every worker it spawned has terminated; so the region is never
\* unmapped while a worker can still read it.
C22_JoinedBeforeRelease ==
    []C22_RegionMappedWhileRunning /\ [][C22_LeavesJoinLoopAfterWorkers]_vars

\* The merge has started after two or more workers ran, the region mapped.
C22_Witness ==
    /\ pc = "merge"
    /\ Len(tds) >= 2
    /\ \A w \in 1..Len(tds) : tds[w].ph = "done"
    /\ ctx.region.data # 0

\* C23: every offset worker w appends lies in its owned range (at least
\* L_w, and below L_{w+1} for every worker but the last), and each worker's
\* local buffer is strictly ascending.
C23_OwnedRangeAscending ==
    \A w \in 1..Len(tds) :
        /\ StrictlyAscending(tds[w].matches)
        /\ \A k \in 1..Len(tds[w].matches) :
               /\ tds[w].matches[k] >= tds[w].true_chunk_start
               /\ w < Len(tds) => tds[w].matches[k] < tds[w + 1].true_chunk_start

\* C24: on the parallel path each worker's scan range satisfies
\* 0 <= scan_start <= owned_start <= scan_end <= S and its size is
\* scan_end - scan_start, with no wrap-around in start_off - pattern_len + 1
\* (the model keeps the wrapped scan_start as the negative number it stands
\* for as an address).
C24_ScanRangesInsideRegion ==
    (pc = "workers" /\ ctx.pattern_len >= 1) =>
        \A w \in 1..Len(tds) :
            /\ 0 <= tds[w].start
            /\ tds[w].start <= tds[w].true_chunk_start
            /\ tds[w].true_chunk_start <= tds[w].start + tds[w].size
            /\ tds[w].start + tds[w].size <= ctx.region.size

\* The next step of scanner.c's scan loads data: a stride for the prefilter,
\* a candidate for its verification, or a byte of the tail.
ExaminesData(a, s) ==
    \/ s.ph = "sse" /\ s.start < Len(a.d) - a.vw
    \/ s.ph = "cand" /\ s.mask # {} /\ CandidateBelowLimit(a, s.start + Minimum(s.mask))
    \/ s.ph = "tail" /\ s.start < Len(a.d) - a.P + 1

\* C26: fs_scan_raw returns as soon as the hit that makes *match_count equal
\* to cap has been recorded: after the cap-th offset is written, no further
\* data byte is examined.
C26_ReturnsAtCap ==
    (scan.cap >= 1 /\ scan.P >= 1 /\ Len(scan.gs.out) = scan.cap) =>
        ~ExaminesData(RawArgs, scan.gs)

\* C27: fs_mmap_close and fastscan_destroy call close() only on a descriptor
\* that a successful fs_mmap_open of the same region returned: no descriptor
\* the process held otherwise is closed, and close() is not called on a
\* descriptor that is not open.
C27_ClosesOnlyOwnDescriptors == os.foreign = {} /\ ~os.ebadf

\* C28: CompleteScan reads scan_status and match_count and frees
\* async_data->matches only after ExecuteScan has assigned them; invoked with
\* a status other than napi_ok without ExecuteScan having run, it frees
\* nothing but the work object and async_data.
C28_CompleteAfterExecute ==
    /\ js.uninit = {}
    /\ js.msg = "Async internal failure" =>
           /\ pc # "crashed"
           /\ \A id \in 1..Len(heap) :
                  heap[id].frees # <<>> =>
                      /\ heap[id].kind = "async_data"
                      /\ Len(heap[id].frees) = 1

\* C30: the pattern the core scans for is the whole byte sequence the caller
\* supplied: the pattern_len stored by fastscan_init equals the byte length
\* the bridge read from the JavaScript string (the bytes it copied into its
\* buffer), also for a pattern that contains a zero byte.
C30_WholePatternScanned ==
    (js.call # "none" /\ ctx.pattern # <<>> /\ ctx.pattern = js.pattern) =>
        /\ ctx.pattern_len = Len(js.pattern) - 1
        /\ PatternOf(ctx) = SubSeq(js.pattern, 1, Len(js.pattern) - 1)

\* The promise of a scanFileAsync call is settled.
Settled == js.outcome \in {"resolved", "rejected"}

\* Resolved when the scan status is Success and rejected otherwise; the
\* AsyncScanData is not released while the promise is pending and has been
\* released exactly once when the callback has returned.
C29_SettlementAndRelease ==
    js.call = "async" =>
        /\ (Settled /\ js.msg # "Async internal failure") =>
               (js.outcome = "resolved" <=> js.scan_status = FS_SUCCESS)
        /\ \A id \in 1..Len(heap) :
               heap[id].kind = "async_data" =>
                   /\ js.outcome = "promise" => heap[id].frees = <<>>
                   /\ (Settled /\ pc = "returned") => Len(heap[id].frees) = 1

\* A settled promise stays as it was settled.
C29_SettledOnce == Settled => js'.outcome = js.outcome

\* C29: every scanFileAsync call that returns a promise eventually has that
\* promise settled exactly once, resolved with the offsets when the scan
\* status is Success and rejected otherwise, and its AsyncScanData is
\* released exactly once, after the settlement.
C29_PromiseSettled ==
    /\ (js.outcome = "promise") ~> Settled
    /\ []C29_SettlementAndRelease
    /\ [][C29_SettledOnce]_vars

\* The thread_data_t the spawn loop hands to worker w.
SpawnedTd(w) ==
    NewThreadData(w - 1, ex.nth, ctx.region.size, ctx.pattern_len, ctx.max_matches)

\* What worker w leaves when it runs alone from its spawned thread_data_t to
\* its end, meeting the realloc failure it met.
AloneResult(w) ==
    worker_thread(WorkerArgs(ctx, RegionBytes, scan.pd,
                             IF tds[w].nomem THEN tds[w].allocs ELSE 0),
                  SpawnedTd(w))

WorkersRunning == pc \in {"spawning", "joining"}

\* A worker that has returned left the offsets, count and capacity it leaves
\* when it runs alone, whatever the other threads did meanwhile.
C21_ResultOfItsOwnRun ==
    WorkersRunning =>
        \A w \in 1..Len(tds) :
            tds[w].ph = "done" =>
                \E e \in {AloneResult(w)} :
                    /\ tds[w].matches = e.matches
                    /\ tds[w].capacity = e.capacity
                    /\ tds[w].nomem = e.nomem

\* A step that changes a worker's thread_data_t changes no other worker's
\* and nothing of the coordinator's; a step of the coordinator changes no
\* thread_data_t, and the coordinator takes a worker's count only in the
\* join loop's iteration for that worker, after the worker has returned.
C21_StepTouchesOneOwner ==
    (WorkersRunning /\ pc' \in {"spawning", "joining"}) =>
        /\ \A v \in 1..Len(tds) :
              tds'[v] # tds[v] =>
                  /\ \A u \in 1..Len(tds) : u # v => tds'[u] = tds[u]
                  /\ ctx' = ctx /\ ex' = ex /\ pc' = pc /\ Len(tds') = Len(tds)
        /\ (ex' # ex \/ Len(tds') # Len(tds)) =>
              \A v \in 1..Len(tds) : tds'[v] = tds[v]
        /\ ex'.total # ex.total =>
              /\ ~Running(tds[ex.i + 1])
              /\ ex'.total = ex.total + Len(tds[ex.i + 1].matches)

\* C21: during parallel execution every write of a worker goes to its own
\* thread_data_t or its own local buffer, the coordinator touches no worker's
\* count, capacity or buffer between pthread_create and pthread_join, and no
\* interleaving of the workers changes any worker's result.
C21_WorkersIsolated == []C21_ResultOfItsOwnRun /\ [][C21_StepTouchesOneOwner]_vars

\* Two workers are both inside their loops, each with a hit recorded in its
\* own buffer.
C21_Witness ==
    /\ WorkersRunning
    /\ Len(tds) = 2
    /\ \A w \in 1..2 : Running(tds[w]) /\ tds[w].ph # "new" /\ tds[w].matches # <<>>
    /\ tds[1].matches # tds[2].matches
    /\ tds[1].buf # tds[2].buf

\* count <= capacity <= max_collect in every thread_data_t.
C25_CountWithinCapacity ==
    \A w \in 1..Len(tds) :
        /\ Len(tds[w].matches) <= tds[w].capacity
        /\ tds[w].capacity <= tds[w].max_collect

\* The capacity changes from 0 to min(INITIAL_THREAD_CAPACITY, cap) and from
\* there to min(2 * capacity, cap); an offset is written only at an index
\* below the capacity and below the cap, after the offsets already there.
C25_GrowthAndWrites ==
    (WorkersRunning /\ pc' \in {"spawning", "joining"}) =>
        \A w \in 1..Len(tds) :
            /\ tds'[w].capacity # tds[w].capacity =>
                  tds'[w].capacity =
                      Min(IF tds[w].capacity = 0 THEN InitialThreadCapacity
                          ELSE 2 * tds[w].capacity,
                          tds[w].max_collect)
            /\ tds'[w].matches # tds[w].matches =>
                  /\ Len(tds'[w].matches) = Len(tds[w].matches) + 1
                  /\ SubSeq(tds'[w].matches, 1, Len(tds[w].matches)) = tds[w].matches
                  /\ Len(tds[w].matches) < tds'[w].capacity
                  /\ Len(tds[w].matches) < tds[w].max_collect

\* C25: at every step of worker_thread count <= capacity <= max_collect; the
\* capacity goes from 0 to min(4096, cap) and then doubles, clipped to cap;
\* no offset is written at an index at or beyond the capacity, and once count
\* has reached the cap the worker records nothing more.
C25_BufferWithinCap == []C25_CountWithinCapacity /\ [][C25_GrowthAndWrites]_vars

\* A worker whose capacity went 1, 2, 3 under a cap of 3 has filled its
\* buffer and left its loop before the end of its range.
C25_Witness ==
    /\ WorkersRunning
    /\ \E w \in 1..Len(tds) :
          /\ tds[w].max_collect = MaxCap + 1
          /\ tds[w].capacity = tds[w].max_collect
          /\ tds[w].allocs = 3
          /\ Len(tds[w].matches) = tds[w].max_collect
          /\ tds[w].ph = "done"
          /\ tds[w].p < tds[w].start + tds[w].size - ctx.pattern_len

\* The final result buffers allocated so far.
FinalBuffers == {id \in 1..Len(heap) : heap[id].kind = "final"}

\* C8: the final result buffer is freed exactly once on every bridge path:
\* a buffer wrapped in an external ArrayBuffer (Success with
\* match_count > 0) is no longer held by the context or the AsyncScanData and
\* is freed by FreeMatchesCallback alone; any other final buffer is freed by
\* fastscan_destroy or CompleteScan by the time the call has returned, and
\* has no finalizer.
C8_FinalBufferFreedOnce ==
    \A id \in FinalBuffers :
        /\ Len(heap[id].frees) <= 1
        /\ id \in js.external =>
              /\ ctx.matches # id /\ js.matches # id
              /\ status = FS_SUCCESS /\ js.length > 0
              /\ heap[id].frees = IF id \in js.finalized
                                  THEN <<"FreeMatchesCallback">> ELSE <<>>
        /\ (pc = "returned" /\ id \notin js.external) =>
              /\ status # FS_SUCCESS \/ js.length = 0
              /\ heap[id].frees \in {<<"fastscan_destroy">>, <<"CompleteScan">>}

\* An asynchronous scan has resolved with offsets, and the finalizer has run.
C8_Witness ==
    /\ pc = "returned" /\ js.call = "async" /\ js.outcome = "resolved"
    /\ js.external # {} /\ js.finalized = js.external
    /\ \A id \in js.external : heap[id].frees = <<"FreeMatchesCallback">>

\* C9: when init, load or execute fails, the caller receives no match list
\* (ctx.matches and the AsyncScanData's matches are NULL, match_count is 0,
\* JavaScript gets an error) and, by the time the bridge has returned, every
\* mapping, descriptor and buffer of the scan has been released; after
\* ExecuteScan already, the mapping, the descriptor and the workers' buffers.
C9_FailureLeavesNothing ==
    /\ (pc \in {"ran", "returned"} /\ status # FS_SUCCESS) =>
          /\ ctx.matches = 0 /\ ctx.match_count = 0
          /\ js.matches = 0 /\ js.match_count = 0
          /\ js.external = {}
          /\ os.maps = 0 /\ os.owned = {}
          /\ \A id \in 1..Len(heap) :
                heap[id].kind # "async_data" => Len(heap[id].frees) = 1
    /\ (pc = "returned" /\ status # FS_SUCCESS) =>
          /\ js.outcome \in {"throw", "rejected"}
          /\ \A id \in 1..Len(heap) : Len(heap[id].frees) = 1

\* The merge allocation failed after a worker had allocated its buffer.
C9_Witness ==
    /\ pc = "returned" /\ status = FS_ERROR_OUT_OF_BOUNDS
    /\ \E id \in 1..Len(heap) : heap[id].kind = "local"

====
